---- MODULE Spec2Model ----
(***************************************************************************)
(* opsdroid/matchers.py: the skill decorators.  Every decorator factory    *)
(* returns a closure `matcher`; applying the closure to a function makes   *)
(* sure the function carries a `matchers` list and appends one descriptor  *)
(* (a dict) to it.                                                         *)
(***************************************************************************)
EXTENDS Integers, Sequences, FiniteSets, TLC

VARIABLES
    matchers,   \* the `matchers` attribute: object -> list of descriptors,
                \* defined exactly on the objects that have the attribute
    closures,   \* every closure returned so far, with the call that returned it;
                \* each stays callable
    log,        \* the warnings _LOGGER has emitted, oldest first
    applied,    \* history: object -> the closures applied to it, oldest first
    last,       \* history: the latest call, its argument and what it returned
    nops        \* number of calls made so far

vars == <<matchers, closures, log, applied, last, nops>>

(***************************************************************************)
(* Bounds.                                                                 *)
(***************************************************************************)
\* calls made in a run
MaxOps == 4

\* distinct closures held in a run
MaxClosures == 2

(***************************************************************************)
(* Python values.  Every value carries its type, so that values of         *)
(* different types can be told apart.  Floats are kept in tenths.          *)
(***************************************************************************)
None == [type |-> "NoneType"]
Str(s) == [type |-> "str", val |-> s]
Bool(b) == [type |-> "bool", truth |-> b]
Integer(n) == [type |-> "int", n |-> n]
Float(t) == [type |-> "float", tenths |-> t]
Function(name) == [type |-> "function", id |-> name]
True == Bool(TRUE)
False == Bool(FALSE)

\* bool(v)
truthy(v) ==
    CASE v.type = "NoneType" -> FALSE
      [] v.type = "bool" -> v.truth
      [] v.type = "int" -> v.n # 0
      [] v.type = "float" -> v.tenths # 0
      [] v.type = "str" -> v.val # ""
      [] OTHER -> TRUE

\* callable(v): of the values of the model, the functions
callable(v) == v.type = "function"

\* setattr(v, name, x) works on functions and raises AttributeError on
\* None, numbers and strings
AcceptsAttributes(v) == v.type = "function"

AttributeError == [type |-> "AttributeError"]

\* opsdroid.const.REGEX_PARSE_SCORE_FACTOR (0.6)
REGEX_PARSE_SCORE_FACTOR == Float(6)

\* the message of the deprecation warning
RecastaiWarning ==
    "Recast.AI is now called SAP Conversational AI, this matcher  will stop working in the future. Use match_sapcai instead."

(***************************************************************************)
(* Inputs.                                                                 *)
(***************************************************************************)
Handlers == {Function("skill_a"), Function("skill_b")}
NonCallables == {Integer(42)}
Objects == Handlers \cup NonCallables

EventTypes == {Str("message")}
Expressions == {Str("hi")}
Actions == {Str("book_flight")}
Intents == {Str("book_flight")}
\* the intents match_recastai and match_sapcai are called with
SapcaiIntents == {Str("book_flight"), Str("greet")}
Crontabs == {Str("* * * * *")}
Timezones == {Str("Europe/London")}
Webhooks == {Str("deploy")}

NoKwargs == [k \in {} |-> None]

\* the keyword arguments match_regex and match_parse are called with
PatternKwargs ==
    { NoKwargs,
      [score_factor |-> Float(25)],
      [score_factor |-> None],
      [score_factor |-> Integer(0)],
      [case_sensitive |-> False, matching_condition |-> Str("bogus"),
       score_factor |-> Float(25)] }

\* the keyword arguments match_crontab is called with
CrontabKwargs == {NoKwargs} \cup {[timezone |-> tz] : tz \in Timezones}

\* a parameter's value: the keyword argument when given, else its default
Arg(kwargs, name, default) ==
    IF name \in DOMAIN kwargs THEN kwargs[name] ELSE default

Call(fn, args, kwargs) == [fn |-> fn, args |-> args, kwargs |-> kwargs]

(***************************************************************************)
(* opsdroid.helper.add_skill_attributes: gives the function an empty       *)
(* `matchers` list unless it has one already, and returns the function.    *)
(***************************************************************************)
add_skill_attributes(ms, func) ==
    [ms |-> IF func \in DOMAIN ms THEN ms ELSE (func :> <<>>) @@ ms,
     ret |-> func]

(***************************************************************************)
(* The decorator factories.  Each returns its closure `matcher`, modelled  *)
(* as the factory's name with the values of the parameters it closes over. *)
(***************************************************************************)
match_event(event_type) ==
    [kind |-> "match_event", event_type |-> event_type]

\* mutant: match_regex that checks matching_condition and falls back to "match"
match_regex_validating(regex, kwargs) ==
    [kind |-> "match_regex",
     regex |-> regex,
     case_sensitive |-> Arg(kwargs, "case_sensitive", True),
     matching_condition |->
        IF Arg(kwargs, "matching_condition", Str("match"))
              \in {Str("match"), Str("search"), Str("fullmatch")}
        THEN Arg(kwargs, "matching_condition", Str("match"))
        ELSE Str("match"),
     score_factor |-> Arg(kwargs, "score_factor", None)]

match_regex(regex, kwargs) ==
    [kind |-> "match_regex",
     regex |-> regex,
     case_sensitive |-> Arg(kwargs, "case_sensitive", True),
     matching_condition |-> Arg(kwargs, "matching_condition", Str("match")),
     score_factor |-> Arg(kwargs, "score_factor", None)]

match_parse(format_str, kwargs) ==
    [kind |-> "match_parse",
     format_str |-> format_str,
     case_sensitive |-> Arg(kwargs, "case_sensitive", True),
     matching_condition |-> Arg(kwargs, "matching_condition", Str("match")),
     score_factor |-> Arg(kwargs, "score_factor", None)]

match_dialogflow_action(action) ==
    [kind |-> "match_dialogflow_action", action |-> action]

match_dialogflow_intent(intent) ==
    [kind |-> "match_dialogflow_intent", intent |-> intent]

match_luisai_intent(intent) ==
    [kind |-> "match_luisai_intent", intent |-> intent]

match_rasanlu(intent) ==
    [kind |-> "match_rasanlu", intent |-> intent]

match_recastai(intent) ==
    [kind |-> "match_recastai", intent |-> intent]

\* mutant: the warning is emitted the first time only
match_recastai_warning_once(lg) ==
    IF lg = <<>> THEN Append(lg, RecastaiWarning) ELSE lg

\* the _LOGGER.warning(...) call in the body of match_recastai
match_recastai_warning(lg) == Append(lg, RecastaiWarning)

match_sapcai(intent) ==
    [kind |-> "match_sapcai", intent |-> intent]

match_watson(intent) ==
    [kind |-> "match_watson", intent |-> intent]

match_witai(intent) ==
    [kind |-> "match_witai", intent |-> intent]

match_crontab(crontab, kwargs) ==
    [kind |-> "match_crontab",
     crontab |-> crontab,
     timezone |-> Arg(kwargs, "timezone", None)]

match_webhook(webhook) ==
    [kind |-> "match_webhook", webhook |-> webhook]

\* the closure `matcher` defined in match_always
match_always_matcher == [kind |-> "match_always"]

(***************************************************************************)
(* The descriptor each closure appends.                                    *)
(***************************************************************************)
\* mutant: the default replaces None only
score_factor_if_none(score_factor) ==
    IF score_factor = None THEN REGEX_PARSE_SCORE_FACTOR ELSE score_factor

\* score_factor or REGEX_PARSE_SCORE_FACTOR
score_factor_or_default(score_factor) ==
    IF truthy(score_factor) THEN score_factor ELSE REGEX_PARSE_SCORE_FACTOR

event_descriptor(c) == [event_type |-> [type |-> c.event_type]]

regex_descriptor(c) ==
    [regex |->
        [expression |-> c.regex,
         case_sensitive |-> c.case_sensitive,
         matching_condition |-> c.matching_condition,
         score_factor |-> score_factor_or_default(c.score_factor)]]

parse_descriptor(c) ==
    [parse_format |->
        [expression |-> c.format_str,
         case_sensitive |-> c.case_sensitive,
         matching_condition |-> c.matching_condition,
         score_factor |-> score_factor_or_default(c.score_factor)]]

dialogflow_action_descriptor(c) == [dialogflow_action |-> c.action]

dialogflow_intent_descriptor(c) == [dialogflow_intent |-> c.intent]

luisai_descriptor(c) == [luisai_intent |-> c.intent]

rasanlu_descriptor(c) == [rasanlu_intent |-> c.intent]

\* mutant: match_recastai writes a kind tag of its own
recastai_descriptor_own_tag(c) == [recastai_intent |-> c.intent]

recastai_descriptor(c) == [sapcai_intent |-> c.intent]

sapcai_descriptor(c) == [sapcai_intent |-> c.intent]

watson_descriptor(c) == [watson_intent |-> c.intent]

witai_descriptor(c) == [witai_intent |-> c.intent]

\* mutant: the crontab parameters nested under the kind tag
crontab_descriptor_nested(c) ==
    [crontab |-> [crontab |-> c.crontab, timezone |-> c.timezone]]

crontab_descriptor(c) == [crontab |-> c.crontab, timezone |-> c.timezone]

webhook_descriptor(c) == [webhook |-> c.webhook]

always_descriptor(c) == [always |-> True]

descriptor(c) ==
    CASE c.kind = "match_event" -> event_descriptor(c)
      [] c.kind = "match_regex" -> regex_descriptor(c)
      [] c.kind = "match_parse" -> parse_descriptor(c)
      [] c.kind = "match_dialogflow_action" -> dialogflow_action_descriptor(c)
      [] c.kind = "match_dialogflow_intent" -> dialogflow_intent_descriptor(c)
      [] c.kind = "match_luisai_intent" -> luisai_descriptor(c)
      [] c.kind = "match_rasanlu" -> rasanlu_descriptor(c)
      [] c.kind = "match_recastai" -> recastai_descriptor(c)
      [] c.kind = "match_sapcai" -> sapcai_descriptor(c)
      [] c.kind = "match_watson" -> watson_descriptor(c)
      [] c.kind = "match_witai" -> witai_descriptor(c)
      [] c.kind = "match_crontab" -> crontab_descriptor(c)
      [] c.kind = "match_webhook" -> webhook_descriptor(c)
      [] c.kind = "match_always" -> always_descriptor(c)

(***************************************************************************)
(* The closure's body:                                                     *)
(*     func = add_skill_attributes(func)                                   *)
(*     func.matchers.append(<descriptor>)                                  *)
(*     return func                                                         *)
(* The result is the new attribute store and the returned object.          *)
(***************************************************************************)
\* mutant: the closure assigns a fresh list
matcher_resets(c, ms, func) ==
    LET a == add_skill_attributes(ms, func)
    IN  [ms |-> [a.ms EXCEPT ![a.ret] = <<descriptor(c)>>],
         ret |-> a.ret]

\* mutant: the closure inserts at the front
matcher_prepends(c, ms, func) ==
    LET a == add_skill_attributes(ms, func)
    IN  [ms |-> [a.ms EXCEPT ![a.ret] = <<descriptor(c)>> \o @],
         ret |-> a.ret]

\* mutant: one list shared by every decorated object
matcher_shared_list(c, ms, func) ==
    LET a == add_skill_attributes(ms, func)
    IN  [ms |-> [o \in DOMAIN a.ms |-> Append(a.ms[o], descriptor(c))],
         ret |-> a.ret]

matcher(c, ms, func) ==
    LET a == add_skill_attributes(ms, func)
    IN  [ms |-> [a.ms EXCEPT ![a.ret] = Append(@, descriptor(c))],
         ret |-> a.ret]

(***************************************************************************)
(* match_always(func=None): applies its closure at once when handed a      *)
(* callable, and returns the closure otherwise.                            *)
(***************************************************************************)
\* mutant: no detection of the bare form
match_always_factory_only(func, ms) ==
    [ms |-> ms, ret |-> match_always_matcher]

match_always(func, ms) ==
    IF callable(func)
    THEN matcher(match_always_matcher, ms, func)
    ELSE [ms |-> ms, ret |-> match_always_matcher]

(***************************************************************************)
(* The state machine.                                                      *)
(***************************************************************************)
Init ==
    /\ matchers = [o \in {} |-> <<>>]
    /\ closures = {}
    /\ log = <<>>
    /\ applied = [o \in Objects |-> <<>>]
    /\ last = [op |-> "none", arg |-> None, result |-> None]
    /\ nops = 0

\* a factory call `call` returns closure c, having logged what lg holds
Factory(c, call, lg) ==
    /\ nops < MaxOps
    /\ Cardinality(closures \cup {[dec |-> c, call |-> call]}) <= MaxClosures
    /\ closures' = closures \cup {[dec |-> c, call |-> call]}
    /\ log' = lg
    /\ last' = [op |-> call.fn, arg |-> call, result |-> c]
    /\ nops' = nops + 1
    /\ UNCHANGED <<matchers, applied>>

CallMatchEvent ==
    \E v \in EventTypes :
        Factory(match_event(v), Call("match_event", <<v>>, NoKwargs), log)

CallMatchRegex ==
    \E v \in Expressions, kw \in PatternKwargs :
        Factory(match_regex(v, kw), Call("match_regex", <<v>>, kw), log)

CallMatchParse ==
    \E v \in Expressions, kw \in PatternKwargs :
        Factory(match_parse(v, kw), Call("match_parse", <<v>>, kw), log)

CallMatchDialogflowAction ==
    \E v \in Actions :
        Factory(match_dialogflow_action(v),
                Call("match_dialogflow_action", <<v>>, NoKwargs), log)

CallMatchDialogflowIntent ==
    \E v \in Intents :
        Factory(match_dialogflow_intent(v),
                Call("match_dialogflow_intent", <<v>>, NoKwargs), log)

CallMatchLuisaiIntent ==
    \E v \in Intents :
        Factory(match_luisai_intent(v),
                Call("match_luisai_intent", <<v>>, NoKwargs), log)

CallMatchRasanlu ==
    \E v \in Intents :
        Factory(match_rasanlu(v), Call("match_rasanlu", <<v>>, NoKwargs), log)

CallMatchRecastai ==
    \E v \in SapcaiIntents :
        Factory(match_recastai(v), Call("match_recastai", <<v>>, NoKwargs),
                match_recastai_warning(log))

CallMatchSapcai ==
    \E v \in SapcaiIntents :
        Factory(match_sapcai(v), Call("match_sapcai", <<v>>, NoKwargs), log)

CallMatchWatson ==
    \E v \in Intents :
        Factory(match_watson(v), Call("match_watson", <<v>>, NoKwargs), log)

CallMatchWitai ==
    \E v \in Intents :
        Factory(match_witai(v), Call("match_witai", <<v>>, NoKwargs), log)

CallMatchCrontab ==
    \E v \in Crontabs, kw \in CrontabKwargs :
        Factory(match_crontab(v, kw), Call("match_crontab", <<v>>, kw), log)

CallMatchWebhook ==
    \E v \in Webhooks :
        Factory(match_webhook(v), Call("match_webhook", <<v>>, NoKwargs), log)

\* match_always(func), and match_always() with func = None
CallMatchAlways ==
    \E func \in Objects \cup {None} :
        LET r == match_always(func, matchers)
            call == Call("match_always", <<func>>, NoKwargs)
        IN  /\ nops < MaxOps
            /\ callable(func)
                  \/ Cardinality(closures \cup {[dec |-> r.ret, call |-> call]})
                        <= MaxClosures
            /\ matchers' = r.ms
            /\ log' = log
            /\ last' = [op |-> "match_always", arg |-> call, result |-> r.ret]
            /\ nops' = nops + 1
            /\ IF callable(func)
               THEN /\ applied' = [applied EXCEPT
                          ![func] = Append(@, [dec |-> match_always_matcher,
                                               call |-> call])]
                    /\ UNCHANGED closures
               ELSE /\ closures' = closures \cup {[dec |-> r.ret, call |-> call]}
                    /\ UNCHANGED applied

\* d(func): any closure returned so far, the latest or an earlier one, is
\* applied to an object
Decorate ==
    \E cl \in closures, func \in Objects :
        /\ nops < MaxOps
        /\ nops' = nops + 1
        /\ UNCHANGED <<closures, log>>
        /\ IF AcceptsAttributes(func)
           THEN LET r == matcher(cl.dec, matchers, func)
                IN  /\ matchers' = r.ms
                    /\ applied' = [applied EXCEPT
                          ![func] = Append(@, cl)]
                    /\ last' = [op |-> "matcher", arg |-> func, result |-> r.ret]
           ELSE /\ last' = [op |-> "matcher", arg |-> func,
                            result |-> AttributeError]
                /\ UNCHANGED <<matchers, applied>>

Next ==
    \/ CallMatchEvent
    \/ CallMatchRegex
    \/ CallMatchParse
    \/ CallMatchDialogflowAction
    \/ CallMatchDialogflowIntent
    \/ CallMatchLuisaiIntent
    \/ CallMatchRasanlu
    \/ CallMatchRecastai
    \/ CallMatchSapcai
    \/ CallMatchWatson
    \/ CallMatchWitai
    \/ CallMatchCrontab
    \/ CallMatchWebhook
    \/ CallMatchAlways
    \/ Decorate

Spec == Init /\ [][Next]_vars

(***************************************************************************)
(* Properties.                                                             *)
(***************************************************************************)
\* the matcher list of object o in attribute store ms, empty if it has none
ListOf(ms, o) == IF o \in DOMAIN ms THEN ms[o] ELSE <<>>

\* the attribute itself: <<list>> when present, <<>> when absent
AttrOf(ms, o) == IF o \in DOMAIN ms THEN <<ms[o]>> ELSE <<>>

\* the positions of the matcher list of o, paired with the history
Entries(o) == 1 .. Len(applied[o])

\* the parameters of a regex or parse_format descriptor
PatternParams(d) == IF "regex" \in DOMAIN d THEN d.regex ELSE d.parse_format

PatternFactories == {"match_regex", "match_parse"}

\* C1: applying a decorator to a handler returns that very handler, and the
\* handler's matcher list afterwards is its list before (empty if it had
\* none) with exactly one descriptor appended; nothing is reset.
C1_AppendsOne ==
    [][\A h \in Handlers :
          (\/ last'.op = "matcher" /\ last'.arg = h
           \/ last'.op = "match_always" /\ last'.arg.args[1] = h)
          => /\ last'.result = h
             /\ h \in DOMAIN matchers'
             /\ Len(matchers'[h]) = Len(ListOf(matchers, h)) + 1
             /\ SubSeq(matchers'[h], 1, Len(ListOf(matchers, h)))
                   = ListOf(matchers, h)]_vars

C1_Witness ==
    /\ last.op = "matcher"
    /\ last.arg = Function("skill_a")
    /\ last.result = Function("skill_a")
    /\ Function("skill_a") \in DOMAIN matchers
    /\ Len(matchers[Function("skill_a")]) = 2

\* C2: after N applications to one object its matcher list has length N and
\* the i-th entry is the descriptor of the i-th decorator applied;
\* match_crontab then match_webhook gives the crontab descriptor followed
\* by the webhook descriptor.
C2_OrderOfApplication ==
    \A o \in Objects :
        /\ Len(ListOf(matchers, o)) = Len(applied[o])
        /\ \A i \in Entries(o) : matchers[o][i] = descriptor(applied[o][i].dec)
        /\ (/\ Len(applied[o]) = 2
            /\ applied[o][1].call.fn = "match_crontab"
            /\ applied[o][2].call.fn = "match_webhook")
           => /\ Len(matchers[o]) = 2
              /\ DOMAIN matchers[o][1] = {"crontab", "timezone"}
              /\ matchers[o][1].crontab = applied[o][1].call.args[1]
              /\ matchers[o][2] = [webhook |-> applied[o][2].call.args[1]]

C2_Witness ==
    \E h \in Handlers :
        /\ Len(applied[h]) = 2
        /\ applied[h][1].call.fn = "match_crontab"
        /\ applied[h][2].call.fn = "match_webhook"
        /\ Len(matchers[h]) = 2

\* C3: match_regex and match_parse store the caller's score_factor when it
\* is given and truthy, and REGEX_PARSE_SCORE_FACTOR when it is omitted,
\* None or 0; 0 is never stored.
C3_ScoreFactorDefault ==
    \A o \in Objects : \A i \in Entries(o) :
        applied[o][i].call.fn \in PatternFactories =>
            LET kw == applied[o][i].call.kwargs
                stored == PatternParams(matchers[o][i]).score_factor
                given == "score_factor" \in DOMAIN kw
            IN  /\ (given /\ kw.score_factor = Float(25)) => stored = Float(25)
                /\ (~given \/ kw.score_factor \in {None, Integer(0)})
                      => stored = REGEX_PARSE_SCORE_FACTOR
                /\ stored # Integer(0)

C3_Witness ==
    /\ \E o \in Objects : \E i \in Entries(o) :
          /\ applied[o][i].call.fn = "match_regex"
          /\ applied[o][i].call.kwargs = [score_factor |-> Integer(0)]
          /\ matchers[o][i].regex.score_factor = REGEX_PARSE_SCORE_FACTOR
    /\ \E o \in Objects : \E i \in Entries(o) :
          /\ applied[o][i].call.fn = "match_parse"
          /\ applied[o][i].call.kwargs = [score_factor |-> Float(25)]
          /\ matchers[o][i].parse_format.score_factor = Float(25)

\* C4: match_regex / match_parse called with the expression alone store
\* the expression, case_sensitive True, matching_condition "match" and the
\* default score factor; a case_sensitive or matching_condition that is
\* given is stored as given, whatever it is.
C4_PatternDefaultsAndVerbatim ==
    \A o \in Objects : \A i \in Entries(o) :
        applied[o][i].call.fn \in PatternFactories =>
            LET call == applied[o][i].call
                kw == call.kwargs
                d == matchers[o][i]
                params == PatternParams(d)
            IN  /\ DOMAIN d = (IF call.fn = "match_regex" THEN {"regex"}
                                                         ELSE {"parse_format"})
                /\ params.expression = call.args[1]
                /\ kw = NoKwargs =>
                      params = [expression |-> call.args[1],
                                case_sensitive |-> True,
                                matching_condition |-> Str("match"),
                                score_factor |-> REGEX_PARSE_SCORE_FACTOR]
                /\ "case_sensitive" \in DOMAIN kw =>
                      params.case_sensitive = kw.case_sensitive
                /\ "matching_condition" \in DOMAIN kw =>
                      params.matching_condition = kw.matching_condition

C4_Witness ==
    /\ \E o \in Objects : \E i \in Entries(o) :
          /\ applied[o][i].call.fn = "match_regex"
          /\ applied[o][i].call.kwargs = NoKwargs
          /\ matchers[o][i].regex.case_sensitive = True
    /\ \E o \in Objects : \E i \in Entries(o) :
          /\ applied[o][i].call.fn = "match_regex"
          /\ "matching_condition" \in DOMAIN applied[o][i].call.kwargs
          /\ matchers[o][i].regex.matching_condition = Str("bogus")

\* C5: @match_always and @match_always() are equivalent: from any state of
\* a handler both return the handler and both leave its matcher list
\* extended by {always: True}; and so do the calls actually made.
C5_AlwaysBothForms ==
    /\ \A h \in Handlers :
          LET bare == match_always(h, matchers)
              factory == match_always(None, matchers)
              called == matcher(factory.ret, factory.ms, h)
          IN  /\ bare.ret = h
              /\ called.ret = h
              /\ bare.ms = called.ms
              /\ bare.ms[h] = Append(ListOf(matchers, h), [always |-> True])
    /\ \A o \in Objects : \A i \in Entries(o) :
          applied[o][i].call.fn = "match_always" =>
              matchers[o][i] = [always |-> True]

C5_Witness ==
    /\ Len(applied[Function("skill_a")]) = 1
    /\ applied[Function("skill_a")][1].call
          = Call("match_always", <<Function("skill_a")>>, NoKwargs)
    /\ Len(applied[Function("skill_b")]) = 1
    /\ applied[Function("skill_b")][1].call
          = Call("match_always", <<None>>, NoKwargs)
    /\ matchers[Function("skill_a")] = <<[always |-> True]>>
    /\ matchers[Function("skill_b")] = <<[always |-> True]>>

\* C6: match_recastai(v) and match_sapcai(v) append the same descriptor,
\* {sapcai_intent: v}, and leave the matcher list in the same state.
C6_RecastaiIsSapcai ==
    /\ \A v \in SapcaiIntents : \A o \in {x \in Objects : AcceptsAttributes(x)} :
          matcher(match_recastai(v), matchers, o)
              = matcher(match_sapcai(v), matchers, o)
    /\ \A o \in Objects : \A i \in Entries(o) :
          applied[o][i].call.fn \in {"match_recastai", "match_sapcai"} =>
              matchers[o][i] = [sapcai_intent |-> applied[o][i].call.args[1]]

C6_Witness ==
    \E v \in SapcaiIntents :
        /\ Len(applied[Function("skill_a")]) = 1
        /\ applied[Function("skill_a")][1].call
              = Call("match_recastai", <<v>>, NoKwargs)
        /\ Len(applied[Function("skill_b")]) = 1
        /\ applied[Function("skill_b")][1].call
              = Call("match_sapcai", <<v>>, NoKwargs)
        /\ matchers[Function("skill_a")] = matchers[Function("skill_b")]

\* the number of decorations made through match_recastai
RecastaiDecorations ==
    Cardinality(UNION {
        {<<o, i>> : i \in {j \in Entries(o) :
                             applied[o][j].call.fn = "match_recastai"}}
        : o \in Objects})

\* C7 as claimed: the number of warnings equals the number of handlers
\* decorated through match_recastai.
C7_WarningPerDecoration == Len(log) = RecastaiDecorations

\* C7 as amended: the warning is emitted by the call match_recastai(intent),
\* once per call; applying the returned decorator, and every other factory,
\* emits nothing.
C7_WarningPerFactoryCall ==
    [][IF last'.op = "match_recastai"
       THEN log' = Append(log, RecastaiWarning)
       ELSE log' = log]_vars

C7_Witness ==
    /\ Len(log) = 1
    /\ \A h \in Handlers :
          /\ Len(applied[h]) = 1
          /\ applied[h][1].call.fn = "match_recastai"
    /\ last.op = "matcher"

\* C8 as claimed: every descriptor has exactly one top-level key.
C8_OneTopLevelKey ==
    \A o \in DOMAIN matchers : \A i \in 1 .. Len(matchers[o]) :
        Cardinality(DOMAIN matchers[o][i]) = 1

\* the descriptor the data-model table gives for a factory call
C8_Table(call) ==
    LET fn == call.fn
        v == call.args[1]
    IN  CASE fn = "match_event" -> [event_type |-> [type |-> v]]
          [] fn = "match_dialogflow_action" -> [dialogflow_action |-> v]
          [] fn = "match_dialogflow_intent" -> [dialogflow_intent |-> v]
          [] fn = "match_luisai_intent" -> [luisai_intent |-> v]
          [] fn = "match_rasanlu" -> [rasanlu_intent |-> v]
          [] fn \in {"match_recastai", "match_sapcai"} -> [sapcai_intent |-> v]
          [] fn = "match_watson" -> [watson_intent |-> v]
          [] fn = "match_witai" -> [witai_intent |-> v]
          [] fn = "match_webhook" -> [webhook |-> v]
          [] fn = "match_always" -> [always |-> True]
          [] fn = "match_crontab" ->
                [crontab |-> v,
                 timezone |-> IF "timezone" \in DOMAIN call.kwargs
                              THEN call.kwargs.timezone ELSE None]

\* C8 as amended: every descriptor is keyed by its matcher kind; all kinds
\* but crontab have that one top-level key, mapped to the kind's
\* parameters, and the crontab descriptor is flat with the two top-level
\* keys crontab and timezone.
C8_DescriptorShapes ==
    \A o \in Objects : \A i \in Entries(o) :
        LET call == applied[o][i].call
            d == matchers[o][i]
        IN  IF call.fn \in PatternFactories
            THEN /\ DOMAIN d = (IF call.fn = "match_regex"
                                THEN {"regex"} ELSE {"parse_format"})
                 /\ DOMAIN PatternParams(d)
                       = {"expression", "case_sensitive",
                          "matching_condition", "score_factor"}
            ELSE /\ d = C8_Table(call)
                 /\ Cardinality(DOMAIN d)
                       = (IF call.fn = "match_crontab" THEN 2 ELSE 1)

C8_Witness ==
    \E h \in Handlers :
        /\ Len(applied[h]) = 2
        /\ applied[h][1].call.fn = "match_webhook"
        /\ matchers[h][1] = [webhook |-> Str("deploy")]
        /\ applied[h][2].call.fn = "match_crontab"
        /\ DOMAIN matchers[h][2] = {"crontab", "timezone"}

\* C9 as claimed: a decorator applied to a non-callable raises instead of
\* returning, and match_always(x) with a non-callable x other than None
\* does not return a decorator.
C9_NonCallableRaises ==
    /\ (last.op = "matcher" /\ ~callable(last.arg))
          => last.result = AttributeError
    /\ (last.op = "match_always"
          /\ last.arg.args[1] # None /\ ~callable(last.arg.args[1]))
          => last.result = AttributeError

\* C10: a step changes the matcher list of an object only by applying a
\* decorator to that very object; a factory call changes no list.
C10_Frame ==
    [][\A o \in Objects :
          AttrOf(matchers', o) # AttrOf(matchers, o) =>
              \/ last'.op = "matcher" /\ last'.arg = o
              \/ last'.op = "match_always" /\ last'.arg.args[1] = o]_vars

C10_Witness ==
    /\ last.op = "matcher"
    /\ last.arg = Function("skill_b")
    /\ Len(applied[Function("skill_a")]) = 1
    /\ Len(applied[Function("skill_b")]) = 1
    /\ applied[Function("skill_a")][1] = applied[Function("skill_b")][1]
    /\ matchers[Function("skill_a")] = matchers[Function("skill_b")]
    /\ Len(matchers[Function("skill_a")]) = 1

====
